---- MODULE Spec2Model ----
(***************************************************************************)
(* Loan ledger of bank_system/loans: lend_loan, make_payment and the model *)
(* methods Loan.clean, Loan.save and Payment.save they run.                *)
(*                                                                         *)
(* Money is counted in cents (Decimal with 2 places), interest rates in    *)
(* hundredths of a percent.  The database holds committed rows only; a     *)
(* request inside transaction.atomic keeps its writes in tx[r] until the   *)
(* atomic block exits.                                                     *)
(***************************************************************************)
EXTENDS Integers, Sequences, FiniteSets, TLC

\* ------------------------------------------------------------------ bounds
MaxLoans == 1
MaxRequests == 2

Requests == 1..MaxRequests
LoanIds == 1..MaxLoans

\* request inputs
CustomerIds == {"c1"}
Principals == {-100, 0, 1000}
Periods == {-1, 0, 1}
Rates == {-100, 1000}
PaymentTypes == {"EMI", "LUMP_SUM"}

\* Python's None, and an optional value held as a sequence of length <= 1
PyNone == << >>
Some(x) == <<x>>

VARIABLES
    customers,   \* Customer table: set of customer_id
    loans,       \* Loan table: sequence of rows, loan_id = index = creation order
    payments,    \* Payment table: sequence of rows in insertion order
    pc,          \* position of each make_payment request
    req,         \* request.data of each make_payment request
    seen,        \* remaining_balance read by PaymentCreateSerializer.validate
    snap,        \* the loan object the view read with select_for_update
    tx,          \* writes pending in the request's transaction.atomic block
    resp,        \* the Response the request returns
    rowlock,     \* row locks taken by select_for_update: set of <<request, loan_id>>
    ledger       \* the loan_ledger request: its position, the loan it read, its Response

vars == <<customers, loans, payments, pc, req, seen, snap, tx, resp, rowlock, ledger>>

Min(a, b) == IF a < b THEN a ELSE b
Max(a, b) == IF a > b THEN a ELSE b

\* Decimal(num/den).quantize(Decimal('0.01'), rounding=ROUND_HALF_UP), in cents, den > 0
quantize(num, den) ==
    IF num >= 0 THEN (2 * num + den) \div (2 * den)
    ELSE 0 - ((2 * (0 - num) + den) \div (2 * den))

\* (a * b / den).quantize(...): Decimal arithmetic is exact, so the quotient is
\* rounded once; the whole multiples of den in |a| are taken out before the
\* product is formed, which keeps every intermediate value a machine integer
quantize_product(a, b, den) ==
    LET sign == IF (a < 0) = (b < 0) THEN 1 ELSE 0 - 1
        aa == IF a < 0 THEN 0 - a ELSE a
        bb == IF b < 0 THEN 0 - b ELSE b
    IN sign * ((aa \div den) * bb + quantize((aa % den) * bb, den))

\* ------------------------------------------------------------------- Loan
\* Loan_clean without the principal and period checks
Loan_clean_lax(self) ==
    IF self.interest_rate < 0 THEN "Interest rate cannot be negative" ELSE ""

\* Loan.clean: the first failing check, "" when none fails.  `x and x <= 0`
\* is false for a zero x, which is falsy.
Loan_clean(self) ==
    IF self.principal_amount # 0 /\ self.principal_amount <= 0
        THEN "Principal amount must be positive"
    ELSE IF self.loan_period_years # 0 /\ self.loan_period_years <= 0
        THEN "Loan period must be positive"
    ELSE IF self.interest_rate < 0
        THEN "Interest rate cannot be negative"
    ELSE ""

\* Loan(customer=..., principal_amount=..., loan_period_years=..., interest_rate=...)
Loan_init(customer, principal, period, rate) ==
    [customer |-> customer, principal_amount |-> principal,
     loan_period_years |-> period, interest_rate |-> rate,
     total_interest |-> PyNone, total_amount |-> PyNone, monthly_emi |-> PyNone,
     amount_paid |-> 0, remaining_balance |-> PyNone, total_emis |-> PyNone,
     emis_paid |-> 0, loan_status |-> "ACTIVE"]

\* The derived fields Loan.save computes when total_amount or total_interest is None
Loan_calculate(self) ==
    LET total_interest == quantize_product(self.principal_amount,
                              self.loan_period_years * self.interest_rate, 10000)
        total_amount == self.principal_amount + total_interest
        total_emis == self.loan_period_years * 12
        monthly_emi == IF total_emis > 0 THEN quantize(total_amount, total_emis)
                       ELSE total_amount
    IN [self EXCEPT !.total_interest = Some(total_interest),
                    !.total_amount = Some(total_amount),
                    !.total_emis = Some(total_emis),
                    !.monthly_emi = Some(monthly_emi),
                    !.remaining_balance =
                        IF self.remaining_balance = PyNone THEN Some(total_amount)
                        ELSE self.remaining_balance]

\* A Loan row as it is stored: the optional fields unwrapped
LoanRow(self) ==
    [self EXCEPT !.total_interest = self.total_interest[1],
                 !.total_amount = self.total_amount[1],
                 !.monthly_emi = self.monthly_emi[1],
                 !.remaining_balance = self.remaining_balance[1],
                 !.total_emis = self.total_emis[1]]

\* Loan.save of a new loan (no _skip_validation): calculate, full_clean, insert.
\* [error |-> message or "", row |-> the row to insert]
Loan_save(self) ==
    LET calc == IF self.total_amount = PyNone \/ self.total_interest = PyNone
                THEN Loan_calculate(self) ELSE self
    IN [error |-> Loan_clean(calc), row |-> LoanRow(calc)]

\* Loan.emis_remaining
emis_remaining(loan) == Max(0, loan.total_emis - loan.emis_paid)

\* ---------------------------------------------------------------- Payment
\* payment_id = UUIDField(primary_key=True, default=uuid.uuid4): the default is
\* called when the instance is constructed; request r's fresh UUID is <<r>>
uuid4(r) == Some(r)

\* Payment_init that attaches every payment to the first loan
Payment_init_first_loan(r, loan_id, payment_type, amount) ==
    [payment_id |-> uuid4(r), loan |-> 1, payment_type |-> payment_type,
     amount |-> amount, balance_after_payment |-> 0]

\* Payment(loan=loan, payment_type=payment_type, amount=amount), built by
\* Payment.objects.create: every field not given takes its default
Payment_init(r, loan_id, payment_type, amount) ==
    [payment_id |-> uuid4(r), loan |-> loan_id, payment_type |-> payment_type,
     amount |-> amount, balance_after_payment |-> 0]

\* not_pk with the test turned round: the block runs for a payment that has a pk
not_pk_inverted(self) == self.payment_id # PyNone

\* `not self.pk` at the head of Payment.save: true of an instance whose primary
\* key is None.  A payment built by Payment_init carries the UUID its default
\* produced, so for it the test is false and the "new payment" block is skipped.
not_pk(self) == self.payment_id = PyNone

\* The "new payment" block of Payment.save on the loan object: the exception it
\* raises ("" when none), the loan object as left in memory, whether
\* loan.save() ran, and the balance snapshot set on the payment
Payment_apply(self, loan) ==
    LET a == self.amount
        unchanged == [raised |-> "", loan |-> loan, loan_saved |-> FALSE,
                      balance_after_payment |-> self.balance_after_payment]
    IN  IF loan.loan_status # "ACTIVE"
            THEN [unchanged EXCEPT !.raised = "LoanInactive"]
        ELSE IF a > loan.remaining_balance
            THEN [unchanged EXCEPT !.raised = "AmountExceedsBalance"]
        ELSE
            LET paid == loan.amount_paid + a
                rem == Max(0, loan.remaining_balance - a)
                l1 == [loan EXCEPT !.amount_paid = paid, !.remaining_balance = rem]
            IN  IF self.payment_type = "EMI" /\ a # loan.monthly_emi
                    THEN [unchanged EXCEPT !.raised = "EmiAmountMismatch", !.loan = l1]
                ELSE
                    LET emis == IF self.payment_type = "EMI"
                                    THEN Min(loan.emis_paid + 1, loan.total_emis)
                                ELSE IF loan.monthly_emi > 0
                                    THEN Min(loan.emis_paid + (a \div loan.monthly_emi),
                                             loan.total_emis)
                                ELSE loan.emis_paid
                        l2 == [l1 EXCEPT !.emis_paid = emis]
                        l3 == IF rem <= 1
                                THEN [l2 EXCEPT !.loan_status = "COMPLETED",
                                                !.remaining_balance = 0,
                                                !.emis_paid = loan.total_emis]
                              ELSE l2
                    IN  [raised |-> "", loan |-> l3, loan_saved |-> TRUE,
                         balance_after_payment |-> l3.remaining_balance]

\* Payment.save with the block run for every new payment and loan.save() called
\* before the EMI amount is checked
Payment_save_early(self, loan, db_ok) ==
    LET blk == Payment_apply(self, loan)
        row == [self EXCEPT !.balance_after_payment = blk.balance_after_payment]
    IN  IF blk.raised # ""
            THEN [raised |-> blk.raised, db_error |-> FALSE, loan |-> blk.loan,
                  loan_saved |-> blk.raised = "EmiAmountMismatch", inserted |-> PyNone]
        ELSE IF ~db_ok
            THEN [raised |-> "PersistenceError", db_error |-> TRUE, loan |-> blk.loan,
                  loan_saved |-> blk.loan_saved, inserted |-> PyNone]
        ELSE [raised |-> "", db_error |-> FALSE, loan |-> blk.loan,
              loan_saved |-> blk.loan_saved, inserted |-> Some(row)]

\* Payment.save: the block above when `not self.pk`, then super().save(), the
\* INSERT, which the database completes (db_ok) or fails.
\* inserted: Some(row) when the payment row was written.
Payment_save(self, loan, db_ok) ==
    LET blk == IF not_pk(self) THEN Payment_apply(self, loan)
               ELSE [raised |-> "", loan |-> loan, loan_saved |-> FALSE,
                     balance_after_payment |-> self.balance_after_payment]
        row == [self EXCEPT !.balance_after_payment = blk.balance_after_payment]
    IN  IF blk.raised # ""
            THEN [raised |-> blk.raised, db_error |-> FALSE, loan |-> blk.loan,
                  loan_saved |-> FALSE, inserted |-> PyNone]
        ELSE IF ~db_ok
            THEN [raised |-> "PersistenceError", db_error |-> TRUE, loan |-> blk.loan,
                  loan_saved |-> blk.loan_saved, inserted |-> PyNone]
        ELSE [raised |-> "", db_error |-> FALSE, loan |-> blk.loan,
              loan_saved |-> blk.loan_saved, inserted |-> Some(row)]

\* --------------------------------------------------------------- database
LoanExists(loan_id) == loan_id \in 1..Len(loans)

EmptyTx == [loan |-> PyNone, payment |-> PyNone, needs_rollback |-> FALSE]

\* can_lock without the wait: a plain get() in place of select_for_update()
can_lock_nowait(r, loan_id) == TRUE

\* select_for_update() blocks while another transaction holds the row's lock
can_lock(r, loan_id) == \A h \in rowlock : h[2] # loan_id

\* Exit of transaction.atomic: roll back when the block is marked for rollback
\* (a database error inside Model.save), commit the pending writes otherwise
atomic_exit(t, table, write) ==
    IF t.needs_rollback THEN table ELSE write

\* ------------------------------------------------------------- serializers
\* PaymentCreateSerializer.validate without its loan_status check
PaymentCreateSerializer_validate_nostatus(data) ==
    IF ~LoanExists(data.loan_id) THEN "LoanNotFound"
    ELSE LET loan == loans[data.loan_id]
         IN  IF loan.remaining_balance <= 0 THEN "NoRemainingBalance"
             ELSE IF data.amount > loan.remaining_balance THEN "AmountExceedsBalance"
             ELSE IF data.payment_type = "EMI" /\ loan.emis_paid >= loan.total_emis
                 THEN "AllInstallmentsPaid"
             ELSE ""

\* PaymentCreateSerializer.validate without its check of the EMI count
PaymentCreateSerializer_validate_nocount(data) ==
    IF ~LoanExists(data.loan_id) THEN "LoanNotFound"
    ELSE LET loan == loans[data.loan_id]
         IN  IF loan.loan_status # "ACTIVE" THEN "LoanInactive"
             ELSE IF loan.remaining_balance <= 0 THEN "NoRemainingBalance"
             ELSE IF data.amount > loan.remaining_balance THEN "AmountExceedsBalance"
             ELSE ""

\* PaymentCreateSerializer.validate on the committed loan row: the message of
\* the ValidationError raised, "" when the data is valid
PaymentCreateSerializer_validate(data) ==
    IF ~LoanExists(data.loan_id) THEN "LoanNotFound"
    ELSE LET loan == loans[data.loan_id]
         IN  IF loan.loan_status # "ACTIVE" THEN "LoanInactive"
             ELSE IF loan.remaining_balance <= 0 THEN "NoRemainingBalance"
             ELSE IF data.amount > loan.remaining_balance THEN "AmountExceedsBalance"
             ELSE IF data.payment_type = "EMI" /\ loan.emis_paid >= loan.total_emis
                 THEN "AllInstallmentsPaid"
             ELSE ""

\* PaymentCreateSerializer_errors with validate() run before the field validators
PaymentCreateSerializer_errors_validate_first(data) ==
    IF PaymentCreateSerializer_validate(data) # "" THEN PaymentCreateSerializer_validate(data)
    ELSE IF data.amount < 1 THEN "InvalidAmount"
    ELSE ""

\* serializer.is_valid(): the field validators run first (amount has
\* min_value=Decimal('0.01')), validate() only when no field failed
PaymentCreateSerializer_errors(data) ==
    IF data.amount < 1 THEN "InvalidAmount"
    ELSE PaymentCreateSerializer_validate(data)

\* LoanCreateSerializer: validate_customer_id
LoanCreateSerializer_errors(data) ==
    IF data.customer_id \notin customers THEN "Customer does not exist." ELSE ""

\* ------------------------------------------------------------------ inputs
\* Amounts a caller may send for a loan: nothing, one cent, one and two
\* installments, and the remaining balance less a cent, exactly, plus a cent
Amounts(loan_id) ==
    IF LoanExists(loan_id)
    THEN LET loan == loans[loan_id]
         IN  {a \in {0, loan.monthly_emi, 2 * loan.monthly_emi,
                     loan.remaining_balance - 1, loan.remaining_balance,
                     loan.remaining_balance + 1} : a >= 0}
    ELSE {1}

\* -------------------------------------------------------------------- Init
Init ==
    /\ customers = {}
    /\ loans = << >>
    /\ payments = << >>
    /\ pc = [r \in Requests |-> "idle"]
    /\ req = [r \in Requests |-> PyNone]
    /\ seen = [r \in Requests |-> PyNone]
    /\ snap = [r \in Requests |-> PyNone]
    /\ tx = [r \in Requests |-> EmptyTx]
    /\ resp = [r \in Requests |-> PyNone]
    /\ rowlock = {}
    /\ ledger = [pc |-> "idle", loan_id |-> PyNone, loan |-> PyNone, resp |-> PyNone]

\* ------------------------------------------------------------------- views
\* create_customer: CustomerSerializer rejects a customer_id already in use
create_customer(c) ==
    /\ c \notin customers
    /\ customers' = customers \cup {c}
    /\ UNCHANGED <<loans, payments, pc, req, seen, snap, tx, resp, rowlock, ledger>>

\* lend_loan: LoanCreateSerializer, then Loan.objects.create (Loan.save)
lend_loan(c, principal, period, rate) ==
    LET data == [customer_id |-> c, principal_amount |-> principal,
                 loan_period_years |-> period, interest_rate |-> rate]
        saved == Loan_save(Loan_init(c, principal, period, rate))
    IN  /\ Len(loans) < MaxLoans
        /\ IF LoanCreateSerializer_errors(data) # ""
               THEN loans' = loans                       \* 400
           ELSE IF saved.error # ""
               THEN loans' = loans                       \* 500, nothing inserted
           ELSE loans' = Append(loans, saved.row)        \* 201
        /\ UNCHANGED <<customers, payments, pc, req, seen, snap, tx, resp, rowlock, ledger>>

\* make_payment, step 1: the request arrives and serializer.is_valid() runs
\* (before the row lock is taken)
make_payment_validate(r, loan_id, payment_type, amount) ==
    LET data == [loan_id |-> loan_id, payment_type |-> payment_type, amount |-> amount]
        err == PaymentCreateSerializer_errors(data)
    IN  /\ pc[r] = "idle"
        /\ IF r = 1 THEN TRUE ELSE pc[r - 1] # "idle"
        /\ req' = [req EXCEPT ![r] = Some(data)]
        /\ seen' = [seen EXCEPT ![r] = IF LoanExists(loan_id)
                                        THEN Some(loans[loan_id].remaining_balance)
                                        ELSE PyNone]
        /\ IF err # ""
               THEN /\ pc' = [pc EXCEPT ![r] = "done"]
                    /\ resp' = [resp EXCEPT ![r] = [status |-> 400, kind |-> err,
                                                    body |-> PyNone]]
               ELSE /\ pc' = [pc EXCEPT ![r] = "valid"]
                    /\ resp' = resp
        /\ UNCHANGED <<customers, loans, payments, snap, tx, rowlock, ledger>>

\* make_payment, step 2: Loan.objects.select_for_update().get(loan_id=loan_id)
make_payment_lock(r) ==
    LET loan_id == req[r][1].loan_id
    IN  /\ pc[r] = "valid"
        /\ IF ~LoanExists(loan_id)
               THEN /\ pc' = [pc EXCEPT ![r] = "done"]
                    /\ resp' = [resp EXCEPT ![r] = [status |-> 404, kind |-> "LoanNotFound",
                                                    body |-> PyNone]]
                    /\ UNCHANGED <<snap, rowlock>>
               ELSE /\ can_lock(r, loan_id)
                    /\ rowlock' = rowlock \cup {<<r, loan_id>>}
                    /\ snap' = [snap EXCEPT ![r] = Some(loans[loan_id])]
                    /\ pc' = [pc EXCEPT ![r] = "locked"]
                    /\ resp' = resp
        /\ UNCHANGED <<customers, loans, payments, req, seen, tx, ledger>>

\* make_payment, step 3: Payment.objects.create(...), i.e. Payment.save; any
\* exception is caught by `except Exception` and becomes the 500 response
make_payment_create(r, db_ok) ==
    LET data == req[r][1]
        self == Payment_init(r, data.loan_id, data.payment_type, data.amount)
        res == Payment_save(self, snap[r][1], db_ok)
    IN  /\ pc[r] = "locked"
        /\ snap' = [snap EXCEPT ![r] = Some(res.loan)]
        /\ tx' = [tx EXCEPT ![r] =
                    [loan |-> IF res.loan_saved THEN Some(res.loan) ELSE PyNone,
                     payment |-> res.inserted,
                     needs_rollback |-> res.db_error]]
        /\ IF res.raised # ""
               THEN /\ pc' = [pc EXCEPT ![r] = "failed"]
                    /\ resp' = [resp EXCEPT ![r] = [status |-> 500, kind |-> res.raised,
                                                    body |-> PyNone]]
               ELSE /\ pc' = [pc EXCEPT ![r] = "created"]
                    /\ resp' = resp
        /\ UNCHANGED <<customers, loans, payments, req, seen, rowlock, ledger>>

\* release that keeps the lock when the request failed
release_on_success(r, loan_id) ==
    IF pc[r] = "failed" THEN rowlock ELSE rowlock \ {<<r, loan_id>>}

\* The end of the view's transaction, by commit or by rollback, releases the
\* row lock the request took with select_for_update
release(r, loan_id) == rowlock \ {<<r, loan_id>>}

\* make_payment, step 4: loan.refresh_from_db(), the response is built, and the
\* view returns: transaction.atomic commits or rolls back and the lock is released
make_payment_exit(r) ==
    LET loan_id == req[r][1].loan_id
        t == tx[r]
        loan == IF t.loan # PyNone THEN t.loan[1] ELSE loans[loan_id]
    IN  /\ pc[r] \in {"created", "failed"}
        /\ loans' = atomic_exit(t, loans,
                        IF t.loan # PyNone THEN [loans EXCEPT ![loan_id] = t.loan[1]]
                        ELSE loans)
        /\ payments' = atomic_exit(t, payments,
                        IF t.payment # PyNone THEN Append(payments, t.payment[1])
                        ELSE payments)
        /\ rowlock' = release(r, loan_id)
        /\ tx' = [tx EXCEPT ![r] = EmptyTx]
        /\ snap' = [snap EXCEPT ![r] = PyNone]
        /\ pc' = [pc EXCEPT ![r] = "done"]
        /\ resp' = IF pc[r] = "created"
                   THEN [resp EXCEPT ![r] =
                           [status |-> 201, kind |-> "",
                            body |-> Some([balance_after_payment |->
                                               t.payment[1].balance_after_payment,
                                           remaining_balance |-> loan.remaining_balance,
                                           emis_remaining |-> emis_remaining(loan),
                                           emis_paid |-> loan.emis_paid,
                                           loan_status |-> loan.loan_status])]]
                   ELSE resp
        /\ UNCHANGED <<customers, req, seen, ledger>>

\* loan_ledger, step 1: Loan.objects.get(loan_id=loan_id); the view holds no
\* transaction and no lock, so each of its queries reads the rows committed at
\* the moment it runs
loan_ledger_get(loan_id) ==
    /\ ledger.pc = "idle"
    /\ ledger' = IF LoanExists(loan_id)
                 THEN [pc |-> "read", loan_id |-> Some(loan_id),
                       loan |-> Some(loans[loan_id]), resp |-> PyNone]
                 ELSE [pc |-> "done", loan_id |-> Some(loan_id), loan |-> PyNone,
                       resp |-> Some([status |-> 404])]
    /\ UNCHANGED <<customers, loans, payments, pc, req, seen, snap, tx, resp, rowlock>>

\* PaymentSerializer(payments, many=True).data over
\* Payment.objects.filter(loan=loan).order_by('payment_date'): payment_date is
\* set when the row is inserted, so the order is the insertion order
payments_data(loan_id) ==
    LET of_loan(p) == p.loan = loan_id
        rows == SelectSeq(payments, of_loan)
    IN [i \in 1..Len(rows) |->
           [payment_id |-> rows[i].payment_id, payment_type |-> rows[i].payment_type,
            amount |-> rows[i].amount,
            balance_after_payment |-> rows[i].balance_after_payment]]

\* loan_ledger, step 2: the payments query is evaluated by the serializer, and
\* the response is built from it and from the loan object read in step 1;
\* payments.count() is answered from the rows the queryset has already fetched
loan_ledger_respond ==
    LET loan == ledger.loan[1]
        data == payments_data(ledger.loan_id[1])
    IN  /\ ledger.pc = "read"
        /\ ledger' = [ledger EXCEPT
                         !.pc = "done",
                         !.resp = Some([status |-> 200,
                                        total_amount |-> loan.total_amount,
                                        remaining_balance |-> loan.remaining_balance,
                                        emis_paid |-> loan.emis_paid,
                                        amount_paid |-> loan.amount_paid,
                                        loan_status |-> loan.loan_status,
                                        total_transactions |-> Len(data),
                                        transactions |-> data])]
        /\ UNCHANGED <<customers, loans, payments, pc, req, seen, snap, tx, resp, rowlock>>

\* LoanAdmin's change form, for the loan_status choice: Loan.save runs
\* full_clean and writes the row (the UPDATE waits for a held row lock)
admin_change_status(loan_id, status) ==
    /\ LoanExists(loan_id)
    /\ can_lock(0, loan_id)
    /\ loans[loan_id].loan_status # status
    /\ Loan_clean(loans[loan_id]) = ""
    /\ loans' = [loans EXCEPT ![loan_id].loan_status = status]
    /\ UNCHANGED <<customers, payments, pc, req, seen, snap, tx, resp, rowlock, ledger>>

Next ==
    \/ \E c \in CustomerIds : create_customer(c)
    \/ \E c \in CustomerIds, p \in Principals, n \in Periods, i \in Rates :
           lend_loan(c, p, n, i)
    \/ \E r \in Requests, l \in LoanIds, t \in PaymentTypes :
           \E a \in Amounts(l) : make_payment_validate(r, l, t, a)
    \/ \E r \in Requests : make_payment_lock(r)
    \/ \E r \in Requests, db_ok \in BOOLEAN : make_payment_create(r, db_ok)
    \/ \E r \in Requests : make_payment_exit(r)

Spec == Init /\ [][Next]_vars

\* The same program with the admin site's status change
NextAdmin ==
    \/ Next
    \/ \E l \in LoanIds, s \in {"ACTIVE", "COMPLETED", "DEFAULTED"} :
           admin_change_status(l, s)

SpecAdmin == Init /\ [][NextAdmin]_vars

\* make_payment requests together with a loan_ledger request
NextLedger ==
    \/ Next
    \/ \E l \in LoanIds : loan_ledger_get(l)
    \/ loan_ledger_respond

SpecLedger == Init /\ [][NextLedger]_vars

\* The server runs every request handler to its end: a request that can take
\* its next step (the row lock being free, for step 2) eventually takes it
Fairness ==
    \A r \in Requests :
        /\ WF_vars(make_payment_lock(r))
        /\ WF_vars(\E db_ok \in BOOLEAN : make_payment_create(r, db_ok))
        /\ WF_vars(make_payment_exit(r))

FairSpec == Spec /\ Fairness

\* make_payment requests against two loans that lend_loan has stored: every
\* pair of rows that Loan.save accepts for the origination inputs
StoredLoans ==
    {Loan_save(Loan_init(c, p, n, i)).row :
        <<c, p, n, i>> \in {x \in CustomerIds \X Principals \X Periods \X Rates :
                               Loan_save(Loan_init(x[1], x[2], x[3], x[4])).error = ""}}

InitTwoLoans ==
    /\ customers = CustomerIds
    /\ loans \in {<<a, b>> : a \in StoredLoans, b \in StoredLoans}
    /\ payments = << >>
    /\ pc = [r \in Requests |-> "idle"]
    /\ req = [r \in Requests |-> PyNone]
    /\ seen = [r \in Requests |-> PyNone]
    /\ snap = [r \in Requests |-> PyNone]
    /\ tx = [r \in Requests |-> EmptyTx]
    /\ resp = [r \in Requests |-> PyNone]
    /\ rowlock = {}
    /\ ledger = [pc |-> "idle", loan_id |-> PyNone, loan |-> PyNone, resp |-> PyNone]

NextTwoLoans ==
    \/ \E r \in Requests, l \in 1..Len(loans), t \in PaymentTypes :
           \E a \in Amounts(l) : make_payment_validate(r, l, t, a)
    \/ \E r \in Requests : make_payment_lock(r)
    \/ \E r \in Requests, db_ok \in BOOLEAN : make_payment_create(r, db_ok)
    \/ \E r \in Requests : make_payment_exit(r)

SpecTwoLoans == InitTwoLoans /\ [][NextTwoLoans]_vars

\* Loan creation alone, over a wider range of origination inputs
PrincipalsWide == {-100, 0, 1, 50, 1000, 1005, 1234567, 10000000}
PeriodsWide == {-1, 0, 1, 2, 3, 7}
RatesWide == {-100, 0, 1, 725, 1000, 5000}

NextLend ==
    \/ \E c \in CustomerIds : create_customer(c)
    \/ \E c \in CustomerIds, p \in PrincipalsWide, n \in PeriodsWide, i \in RatesWide :
           lend_loan(c, p, n, i)

SpecLend == Init /\ [][NextLend]_vars

\* ================================================================== claims
Done(r) == pc[r] = "done"
Accepted(r) == pc[r] = "done" /\ resp[r].status = 201
Data(r) == req[r][1]
PaymentsOf(loan_id) == {i \in 1..Len(payments) : payments[i].loan = loan_id}
\* A loan as the claims take loans to be: positive principal, positive period
Regular(loan_id) ==
    /\ LoanExists(loan_id)
    /\ loans[loan_id].principal_amount > 0
    /\ loans[loan_id].total_emis > 0

C2_ExactlyOneSucceeds ==
    \A r1, r2 \in Requests :
        (/\ r1 # r2
         /\ Done(r1) /\ Done(r2)
         /\ Data(r1).loan_id = Data(r2).loan_id
         /\ Regular(Data(r1).loan_id)
         /\ seen[r1] # PyNone /\ seen[r1] = seen[r2]
         /\ Data(r1).payment_type = "LUMP_SUM" /\ Data(r2).payment_type = "LUMP_SUM"
         /\ Data(r1).amount >= 1 /\ Data(r2).amount >= 1
         /\ Data(r1).amount <= seen[r1][1] /\ Data(r2).amount <= seen[r1][1]
         /\ Data(r1).amount + Data(r2).amount > seen[r1][1]
         /\ resp[r1].kind # "PersistenceError" /\ resp[r2].kind # "PersistenceError")
        => \/ resp[r1].status = 201 /\ resp[r2].kind = "AmountExceedsBalance"
           \/ resp[r2].status = 201 /\ resp[r1].kind = "AmountExceedsBalance"

\* C3: at most one request per loan is between its select_for_update read and
\* the end of its transaction, and the loan object a request read under the
\* lock is still the committed row when Payment.save starts on it.
InCritical(r) == pc[r] \in {"locked", "created", "failed"}

Arrives(r) == pc[r] = "idle" /\ pc'[r] # "idle"

ArrivesAtCompleted(r) ==
    /\ Arrives(r)
    /\ LoanExists(req'[r][1].loan_id)
    /\ loans[req'[r][1].loan_id].loan_status = "COMPLETED"

C5_EmiExactAmount ==
    \A r \in Requests :
        (/\ Done(r)
         /\ Data(r).payment_type = "EMI"
         /\ Regular(Data(r).loan_id)
         /\ resp[r].kind \in {"", "EmiAmountMismatch"})
        => LET exact == Data(r).amount = loans[Data(r).loan_id].monthly_emi
           IN  /\ resp[r].status = 201 <=> exact
               /\ resp[r].kind = "EmiAmountMismatch" <=> ~exact

\* C6: an accepted LUMP_SUM of k installments moves emis_paid to
\* min(emis_paid + k, total_emis).
C6_LumpSumCoversK ==
    [][\A r \in Requests :
           (/\ pc[r] = "created" /\ pc'[r] = "done"
            /\ Data(r).payment_type = "LUMP_SUM"
            /\ Regular(Data(r).loan_id)
            /\ loans[Data(r).loan_id].monthly_emi > 0
            /\ Data(r).amount % loans[Data(r).loan_id].monthly_emi = 0)
           => LET loan == loans[Data(r).loan_id]
                  k == Data(r).amount \div loan.monthly_emi
              IN  loans'[Data(r).loan_id].emis_paid
                      = Min(loan.emis_paid + k, loan.total_emis)]_vars

\* C7: a LUMP_SUM of the whole remaining balance of an ACTIVE loan is accepted
\* and leaves remaining_balance 0, status COMPLETED, emis_paid = total_emis.
C7_FullLumpSumCompletes ==
    [][\A r \in Requests :
           (/\ pc[r] = "created" /\ pc'[r] = "done"
            /\ Data(r).payment_type = "LUMP_SUM"
            /\ Regular(Data(r).loan_id)
            /\ loans[Data(r).loan_id].loan_status = "ACTIVE"
            /\ loans[Data(r).loan_id].remaining_balance > 0
            /\ Data(r).amount = loans[Data(r).loan_id].remaining_balance)
           => /\ resp'[r].status = 201
              /\ loans'[Data(r).loan_id].remaining_balance = 0
              /\ loans'[Data(r).loan_id].loan_status = "COMPLETED"
              /\ loans'[Data(r).loan_id].emis_paid = loans[Data(r).loan_id].total_emis]_vars

\* C8: the step that ends a request with a validation rejection changes no
\* loan row and adds no payment row.
ValidationKinds ==
    {"LoanInactive", "InvalidAmount", "AmountExceedsBalance", "EmiAmountMismatch",
     "AllInstallmentsPaid"}

C8_RejectionChangesNothing ==
    [][\A r \in Requests :
           (pc[r] # "done" /\ pc'[r] = "done" /\ resp'[r].kind \in ValidationKinds)
               => (loans' = loans /\ payments' = payments)]_vars

\* A request has been rejected for its amount on a loan with a balance
C8_Witness ==
    \E r \in Requests :
        /\ Done(r)
        /\ resp[r].kind = "AmountExceedsBalance"
        /\ loans[Data(r).loan_id].remaining_balance > 0

\* C9: in the committed state a loan carries a payment's update exactly when
\* a payment row of that loan exists.
C9_CommittedTogether ==
    \A l \in 1..Len(loans) :
        Regular(l) => ((loans[l].amount_paid # 0) <=> (PaymentsOf(l) # {}))

\* C10: every persisted loan has principal_amount > 0 and total_emis > 0.
C10_PersistedLoansPositive ==
    \A l \in 1..Len(loans) :
        loans[l].principal_amount > 0 /\ loans[l].total_emis > 0

\* C11: a created loan has total_interest = P*N*R/100 rounded half-up to the
\* cent, total_amount = P + total_interest, total_emis = 12*N, monthly_emi =
\* total_amount / total_emis rounded half-up, amount_paid = 0, remaining_balance
\* = total_amount, emis_paid = 0 and status ACTIVE; 100000.00 over 2 years at
\* 10.00 gives 20000.00, 120000.00, 24 and 5000.00.
\* x is num/den rounded half-up (num >= 0); no x rounds a division by zero
IsRoundHalfUp(x, num, den) ==
    /\ den > 0
    /\ den * (2 * x - 1) <= 2 * num
    /\ 2 * num < den * (2 * x + 1)

DerivedFieldsAsClaimed(loan) ==
    /\ LET nr == loan.loan_period_years * loan.interest_rate
           whole == loan.principal_amount \div 10000
           rest == loan.principal_amount % 10000
       IN IsRoundHalfUp(loan.total_interest - whole * nr, rest * nr, 10000)
    /\ loan.total_amount = loan.principal_amount + loan.total_interest
    /\ loan.total_emis = 12 * loan.loan_period_years
    /\ IsRoundHalfUp(loan.monthly_emi, loan.total_amount, loan.total_emis)
    /\ loan.amount_paid = 0
    /\ loan.remaining_balance = loan.total_amount
    /\ loan.emis_paid = 0
    /\ loan.loan_status = "ACTIVE"
    /\ (loan.principal_amount = 10000000 /\ loan.loan_period_years = 2
            /\ loan.interest_rate = 1000)
           => (loan.total_interest = 2000000 /\ loan.total_amount = 12000000
                   /\ loan.total_emis = 24 /\ loan.monthly_emi = 500000)

C11_DerivedFields ==
    \A l \in 1..Len(loans) : DerivedFieldsAsClaimed(loans[l])

\* The same for the loans whose period is positive
C11_DerivedFieldsPositivePeriod ==
    \A l \in 1..Len(loans) :
        loans[l].loan_period_years > 0 => DerivedFieldsAsClaimed(loans[l])

\* C12: in every reachable state a loan is COMPLETED exactly when its
\* remaining_balance is 0, and no step takes a loan from COMPLETED back to ACTIVE.
C12_CompletedIffZeroBalance ==
    /\ [](\A l \in 1..Len(loans) :
              (loans[l].loan_status = "COMPLETED") <=> (loans[l].remaining_balance = 0))
    /\ [][\A l \in 1..Len(loans) :
              loans[l].loan_status = "COMPLETED" => loans'[l].loan_status # "ACTIVE"]_vars

\* C13: in every reachable state every loan has 0 <= emis_paid <= total_emis
\* and remaining_balance >= 0.
C13_CountersInRange ==
    \A l \in 1..Len(loans) :
        /\ 0 <= loans[l].emis_paid
        /\ loans[l].emis_paid <= loans[l].total_emis
        /\ loans[l].remaining_balance >= 0

\* two payments have been accepted on a loan
C13_Witness ==
    \E l \in 1..Len(loans) :
        /\ Regular(l)
        /\ Cardinality(PaymentsOf(l)) >= 2
        /\ \A r \in Requests : Done(r)

\* C14: a make_payment request rejected for the loan's state (LoanInactive,
\* AmountExceedsBalance, EmiAmountMismatch, AllInstallmentsPaid) gets a 400
\* response, never a 500, whether the serializer or Payment.save under the row
\* lock detected it.
StateConflictKinds ==
    {"LoanInactive", "AmountExceedsBalance", "EmiAmountMismatch", "AllInstallmentsPaid"}

IsPrefix(s, t) == Len(s) <= Len(t) /\ \A i \in 1..Len(s) : s[i] = t[i]

LedgerReturned == ledger.pc = "done" /\ ledger.resp[1].status = 200

C15_LedgerConsistent ==
    (LedgerReturned /\ Regular(ledger.loan_id[1])) =>
        LET view == ledger.resp[1]
            n == Len(view.transactions)
        IN /\ IsPrefix(view.transactions, payments_data(ledger.loan_id[1]))
           /\ view.total_transactions = n
           /\ n > 0 => view.remaining_balance = view.transactions[n].balance_after_payment

\* The first two parts of C15 alone
C15_LedgerListAndCount ==
    LedgerReturned =>
        LET view == ledger.resp[1]
        IN /\ IsPrefix(view.transactions, payments_data(ledger.loan_id[1]))
           /\ view.total_transactions = Len(view.transactions)

\* C16: no EMI payment is accepted against a loan whose emis_paid has reached
\* total_emis in the committed state the payment is applied to (the row the
\* request holds locked), under every interleaving of requests.
AcceptedStep(r) == pc[r] = "created" /\ pc'[r] = "done"

FailedChecks(data, loan) ==
    {k \in {"LoanInactive", "InvalidAmount", "NoRemainingBalance", "AmountExceedsBalance",
            "EmiAmountMismatch", "AllInstallmentsPaid"} :
        \/ k = "LoanInactive" /\ loan.loan_status # "ACTIVE"
        \/ k = "InvalidAmount" /\ data.amount <= 0
        \/ k = "NoRemainingBalance" /\ loan.remaining_balance <= 0
        \/ k = "AmountExceedsBalance" /\ data.amount > loan.remaining_balance
        \/ k = "EmiAmountMismatch" /\ data.payment_type = "EMI"
               /\ data.amount # loan.monthly_emi
        \/ k = "AllInstallmentsPaid" /\ data.payment_type = "EMI"
               /\ loan.emis_paid >= loan.total_emis}

\* The first kind of the sequence order that is in the non-empty set failed
FirstFailing(order, failed) ==
    order[CHOOSE i \in 1..Len(order) :
              /\ order[i] \in failed
              /\ \A j \in 1..(i - 1) : order[j] \notin failed]

\* The request r arrives for an existing loan and fails two or more of the
\* checks of order
FailsSeveral(r, order) ==
    /\ Arrives(r)
    /\ LoanExists(req'[r][1].loan_id)
    /\ Cardinality(FailedChecks(req'[r][1], loans[req'[r][1].loan_id])
                       \cap {order[i] : i \in 1..Len(order)}) >= 2

ReportsFirstOf(r, order) ==
    /\ pc'[r] = "done"
    /\ resp'[r].kind =
           FirstFailing(order, FailedChecks(req'[r][1], loans[req'[r][1].loan_id])
                                   \cap {order[i] : i \in 1..Len(order)})

OrderAsClaimed ==
    <<"LoanInactive", "InvalidAmount", "AmountExceedsBalance", "EmiAmountMismatch",
      "AllInstallmentsPaid">>

OrderInCode ==
    <<"InvalidAmount", "LoanInactive", "NoRemainingBalance", "AmountExceedsBalance",
      "AllInstallmentsPaid", "EmiAmountMismatch">>

C18_TerminatesAndReleases ==
    /\ \A r \in Requests : (pc[r] # "idle") ~> Done(r)
    /\ [](\A r \in Requests, l \in LoanIds : Done(r) => <<r, l>> \notin rowlock)

\* a request took the row lock of a loan after an earlier request on that loan
\* had failed while saving and returned
C18_Witness ==
    \E r1, r2 \in Requests :
        /\ Done(r1)
        /\ resp[r1].status = 500
        /\ pc[r2] = "locked"
        /\ Data(r1).loan_id = Data(r2).loan_id

\* C19: an accepted payment of amount a that leaves more than 0.01 adds a to
\* the loan's amount_paid, takes a from its remaining_balance, leaves it
\* ACTIVE, and for an EMI sets emis_paid to min(emis_paid + 1, total_emis).
C19_PartialPaymentUpdatesLoan ==
    [][\A r \in Requests :
           LET l == Data(r).loan_id
               a == Data(r).amount
           IN (AcceptedStep(r) /\ Regular(l) /\ loans[l].remaining_balance - a > 1)
                  => /\ loans'[l].amount_paid = loans[l].amount_paid + a
                     /\ loans'[l].remaining_balance = loans[l].remaining_balance - a
                     /\ loans'[l].loan_status = "ACTIVE"
                     /\ Data(r).payment_type = "EMI"
                            => loans'[l].emis_paid
                                   = Min(loans[l].emis_paid + 1, loans[l].total_emis)]_vars

\* C20: the balance_after_payment of a payment is the loan's remaining_balance
\* right after that payment and never changes; so the balances of a loan's
\* payments, in the order applied, strictly decrease and the last one is the
\* loan's current remaining_balance.
C20_BalanceSnapshots ==
    /\ [][/\ IsPrefix(payments, payments')
          /\ \A r \in Requests :
                 (AcceptedStep(r) /\ Regular(Data(r).loan_id))
                     => payments'[Len(payments')].balance_after_payment
                            = loans'[Data(r).loan_id].remaining_balance]_vars
    /\ [](\A l \in 1..Len(loans) :
              Regular(l) =>
                  LET data == payments_data(l)
                      n == Len(data)
                  IN /\ \A i \in 1..(n - 1) :
                            data[i].balance_after_payment > data[i + 1].balance_after_payment
                     /\ n > 0 => data[n].balance_after_payment = loans[l].remaining_balance)

\* C21: a make_payment request on a loan L, accepted or rejected, changes none
\* of L's principal_amount, loan_period_years, interest_rate, total_interest,
\* total_amount, total_emis and monthly_emi, and changes no field and no
\* payment record of any other loan.
OriginationFields(loan) ==
    <<loan.principal_amount, loan.loan_period_years, loan.interest_rate,
      loan.total_interest, loan.total_amount, loan.total_emis, loan.monthly_emi>>

\* The payment rows of a loan in a Payment table, in insertion order
RecordsOf(table, loan_id) ==
    LET of_loan(p) == p.loan = loan_id IN SelectSeq(table, of_loan)

C21_PaymentFrame ==
    [][\A r \in Requests :
           pc'[r] # pc[r] =>
               /\ Len(loans') = Len(loans)
               /\ \A l \in 1..Len(loans) :
                      IF l = req'[r][1].loan_id
                      THEN OriginationFields(loans'[l]) = OriginationFields(loans[l])
                      ELSE /\ loans'[l] = loans[l]
                           /\ RecordsOf(payments', l) = RecordsOf(payments, l)]_vars

\* payments have been accepted on both of two loans
C21_Witness ==
    \E r1, r2 \in Requests :
        /\ Accepted(r1)
        /\ Accepted(r2)
        /\ Data(r1).loan_id # Data(r2).loan_id
        /\ RecordsOf(payments, Data(r1).loan_id) # << >>
        /\ RecordsOf(payments, Data(r2).loan_id) # << >>

\* C22: in every committed state, under every interleaving of make_payment
\* requests, each loan's amount_paid is the sum of the amounts of the loan's
\* payment records.
RECURSIVE SumAmounts(_)
SumAmounts(rows) ==
    IF rows = << >> THEN 0 ELSE Head(rows).amount + SumAmounts(Tail(rows))

C22_AmountPaidIsSumOfPayments ==
    \A l \in 1..Len(loans) :
        Regular(l) => loans[l].amount_paid = SumAmounts(RecordsOf(payments, l))

====
